---- MODULE Spec2Model ----
(***************************************************************************)
(* Model of git_file_email_agent.py: the GitFileEmailAgent class and the   *)
(* main() entry point.                                                     *)
(*                                                                         *)
(* Text is modelled as a sequence of one-character strings, so that        *)
(* str.strip, str.split, the "in" test and slicing are computed as Python  *)
(* computes them.  A Python value that may be None is a sequence of length *)
(* at most one: None is <<>> and a value v is <<v>>.                       *)
(*                                                                         *)
(* Two specifications share the method actions:                            *)
(*   Spec     main(): one agent is constructed and run() is called once;   *)
(*   SpecAPI  client code holds one agent and calls its methods in any     *)
(*            order, any number of times.                                  *)
(***************************************************************************)
EXTENDS Integers, Sequences, FiniteSets, TLC

VARIABLES
    rpc,                  \* position in main()/run(), or "client"
    mpc,                  \* position in the method being executed
    method,               \* the method being executed or just returned
    branch_name,          \* self.branch_name
    changed_files,        \* self.changed_files
    stdout,               \* result.stdout of the git log query
    lines,                \* local of get_files_changed_today
    idx,                  \* position of the for loop over lines
    current_commit_info,  \* local of get_files_changed_today
    log_outcome,          \* how the git log query of this call ended
    branch_outcome,       \* how the git rev-parse query of this call ended
    ret_branch,           \* value returned by get_current_branch
    ret_files,            \* value returned by get_files_changed_today
    html,                 \* value returned by create_html_table
    msg,                  \* the MIME message send_email built
    smtp_session,         \* "none", "open" or "closed"
    smtp_error,           \* the SMTP step that raised, or "none"
    diag,                 \* the diagnostic send_email printed
    delivered,            \* the SMTP server accepted the message
    send_ret,             \* value returned by send_email
    collector_invoked,    \* get_files_changed_today has been called
    run_ret,              \* value returned by run()
    exit_status           \* process exit status

vars == <<rpc, mpc, method, branch_name, changed_files, stdout, lines, idx,
          current_commit_info, log_outcome, branch_outcome, ret_branch, ret_files,
          html, msg, smtp_session, smtp_error, diag, delivered, send_ret,
          collector_invoked, run_ret, exit_status>>

(***************************************************************************)
(* Bounds of the model.                                                    *)
(***************************************************************************)
\* lines of a git log output in a run of main()
MaxLines == 4
\* lines of a git log output when client code calls the collector
MaxClientLines == 3

(***************************************************************************)
(* Python's None and optional values.                                      *)
(***************************************************************************)
None == <<>>
Some(v) == <<v>>
IsNone(o) == o = <<>>
Val(o) == o[1]

(***************************************************************************)
(* Text operations.                                                        *)
(***************************************************************************)
Whitespace == {" ", "\n", "\t", "\r"}

\* s.strip(): from the first to the last character that is not whitespace
Strip(s) ==
    LET keep == {i \in 1..Len(s) : s[i] \notin Whitespace}
        first == CHOOSE i \in keep : \A j \in 1..(i - 1) : s[j] \in Whitespace
        last == CHOOSE i \in keep : \A j \in (i + 1)..Len(s) : s[j] \in Whitespace
    IN  IF keep = {} THEN <<>> ELSE SubSeq(s, first, last)

\* c in s
Contains(s, c) == \E i \in 1..Len(s) : s[i] = c

\* s.split(sep), for a one-character sep: the fields between the separators
Split(s, sep) ==
    LET seps == {i \in 1..Len(s) : s[i] = sep}
        n == Cardinality(seps) + 1
        \* position of the k-th separator; 0 before the first, Len(s)+1 after the last
        pos(k) == IF k = 0 THEN 0
                  ELSE IF k = n THEN Len(s) + 1
                  ELSE CHOOSE p \in seps : Cardinality({q \in seps : q < p}) = k - 1
    IN  [k \in 1..n |-> SubSeq(s, pos(k - 1) + 1, pos(k) - 1)]

\* s[:n]
Take(s, n) == SubSeq(s, 1, IF Len(s) < n THEN Len(s) ELSE n)

\* sep.join(parts)
Join(parts, sep) ==
    LET joined[k \in 0..Len(parts)] ==
            IF k = 0 THEN <<>>
            ELSE IF k = 1 THEN parts[1]
            ELSE joined[k - 1] \o <<sep>> \o parts[k]
    IN  joined[Len(parts)]

\* bool(x) of a text or a list
Truthy(x) == x # <<>>

(***************************************************************************)
(* The environment: what git may print.                                    *)
(***************************************************************************)
\* stdout of git rev-parse --abbrev-ref HEAD: a branch, or a detached HEAD
BranchOutputs ==
    { <<"m","a","i","n","\n">>, <<"H","E","A","D","\n">> }

\* a|J|2024-01-01 10:00:00 +0000|s   (format %h|%an|%ai|%s)
HeaderFull ==
    <<"a","|","J","|","2","0","2","4","-","0","1","-","0","1"," ","1","0",
      ":","0","0",":","0","0"," ","+","0","0","0","0","|","s">>
\* b|K|01-02   (two delimiters, a third field shorter than ten characters)
HeaderShort == <<"b","|","K","|","0","1","-","0","2">>
\* x|y.py      (one delimiter: a path with the delimiter in its name)
PathWithBar == <<"x","|","y",".","p","y">>
\* src/a.py
PathPlain == <<"s","r","c","/","a",".","p","y">>
\* " b.py"     (a path line with surrounding whitespace)
PathPadded == <<" ","b",".","p","y">>
\* the blank line git prints between commits
BlankLine == <<>>

LogLines == {HeaderFull, HeaderShort, PathWithBar, PathPlain, PathPadded, BlankLine}

\* every sequence of at most n lines of LogLines
LineSeqs(n) == UNION {[1..k -> LogLines] : k \in 0..n}

(***************************************************************************)
(* The agent's text constants.                                             *)
(***************************************************************************)
UnknownText == <<"U","n","k","n","o","w","n">>
UnknownBranchText == <<"U","n","k","n","o","w","n"," ","B","r","a","n","c","h">>
RECIPIENT_EMAIL == <<"swarooj@gmail.com">>
GMAIL_USERNAME == <<"sender@gmail.com">>
\* number of characters of the timestamp kept as the date
DateLen == 10
\* datetime.now().strftime('%Y-%m-%d %H:%M:%S')
Now == <<"2024-01-01 12:00:00">>

\* x or default
OrElse(o, default) == IF IsNone(o) \/ ~Truthy(Val(o)) THEN default ELSE Val(o)

(***************************************************************************)
(* get_files_changed_today: the parsing loop's pieces.                     *)
(***************************************************************************)
\* '|' in line
IsCommitLine(line) == Contains(line, "|")

\* parts[2] of a line with fewer than three fields raises IndexError
RaisesIndexError(line) == Len(Split(line, "|")) < 3

\* a slip: the timestamp is kept whole
CommitDateUntruncated(parts) == parts[3]

\* parts[2][:10]
CommitDate(parts) == Take(parts[3], DateLen)

\* current_commit_info of a commit line
CommitInfo(line) ==
    LET parts == Split(line, "|")
    IN  [hash |-> parts[1], date |-> CommitDate(parts), author |-> parts[2]]

\* the elif condition: line.strip() and current_commit_info
IsFileLine(line, info) == Truthy(Strip(line)) /\ ~IsNone(info)

\* the dictionary appended for a filename line
FileEntry(line, info, branch) ==
    [filename |-> Strip(line), date |-> info.date, branch |-> OrElse(branch, UnknownText)]

\* a slip: a filename already collected is not collected again
AppendEntryDedup(files, entry) ==
    IF \E k \in 1..Len(files) : files[k].filename = entry.filename
    THEN files ELSE Append(files, entry)

\* self.changed_files after a filename line
AppendEntry(files, entry) == Append(files, entry)

(***************************************************************************)
(* create_html_table.  The document is a sequence of text chunks whose     *)
(* concatenation is the returned string; the indentation between tags is   *)
(* left out.                                                               *)
(***************************************************************************)
NoFilesNotice == <<"<p>No files changed today.</p>">>

HtmlHead ==
    <<"<html><head><style>...</style></head><body>",
      "<h2>Git Files Changed Today Report</h2>", "<table>",
      "<tr>", "<th>", "Date", "</th>", "<th>", "Filename", "</th>",
      "<th>", "Branch", "</th>", "</tr>">>

HtmlRow(file_info) ==
    <<"<tr>", "<td>">> \o file_info.date \o <<"</td>", "<td>">>
        \o file_info.filename \o <<"</td>", "<td>">>
        \o file_info.branch \o <<"</td>", "</tr>">>

\* a slip: the rows are emitted last entry first
HtmlRowsReversed(files) ==
    LET rows[k \in 0..Len(files)] ==
            IF k = 0 THEN <<>> ELSE HtmlRow(files[k]) \o rows[k - 1]
    IN  rows[Len(files)]

\* the for loop over self.changed_files
HtmlRows(files) ==
    LET rows[k \in 0..Len(files)] ==
            IF k = 0 THEN <<>> ELSE rows[k - 1] \o HtmlRow(files[k])
    IN  rows[Len(files)]

HtmlTail(now) ==
    <<"</table>", "<p><small>Report generated on ">> \o now
        \o <<"</small></p>", "</body></html>">>

CreateHtmlTable(files, now) ==
    IF ~Truthy(files) THEN NoFilesNotice
    ELSE HtmlHead \o HtmlRows(files) \o HtmlTail(now)

(***************************************************************************)
(* send_email: the guard, the message and the exception handlers.          *)
(***************************************************************************)
\* a slip: the guard is missing
SendNeverSkipped(files) == FALSE

\* if not self.changed_files: ... return False
SendSkipped(files) == ~Truthy(files)

BuildMessage(branch, body) ==
    [subject |-> <<"Git Files Changed Today - ">> \o OrElse(branch, UnknownBranchText),
     from |-> GMAIL_USERNAME, to |-> RECIPIENT_EMAIL, body |-> body]

\* a slip: the SMTPAuthenticationError clause is missing
HandlerDiagGeneric(exc) == "generic"

\* which except clause handles an exception raised inside the try block
HandlerDiag(exc) == IF exc = "SMTPAuthenticationError" THEN "auth" ELSE "generic"

NoError == [step |-> "none", exc |-> "none"]

(***************************************************************************)
(* run() and main(): the decisions between the calls.                      *)
(***************************************************************************)
\* a slip: the branch check is missing
BranchNeverFails(ret) == FALSE

\* if not self.get_current_branch(): ... return False
BranchFailed(ret) == IsNone(ret) \/ ~Truthy(Val(ret))

\* a slip: the result of run() is ignored
ExitStatusAlwaysZero(success) == 0

\* sys.exit(0 if success else 1)
ExitStatus(success) == IF success THEN 0 ELSE 1

\* the interpreter's exit status after an uncaught exception
TracebackExitStatus == 1

(***************************************************************************)
(* Initial states.                                                         *)
(***************************************************************************)
\* GitFileEmailAgent.__init__ and the state before any call
Constructed ==
    /\ mpc = "idle"
    /\ method = "none"
    /\ branch_name = None
    /\ changed_files = <<>>
    /\ stdout = <<>>
    /\ lines = <<>>
    /\ idx = 0
    /\ current_commit_info = None
    /\ log_outcome = "none"
    /\ branch_outcome = "none"
    /\ ret_branch = None
    /\ ret_files = None
    /\ html = None
    /\ msg = None
    /\ smtp_session = "none"
    /\ smtp_error = NoError
    /\ diag = "none"
    /\ delivered = FALSE
    /\ send_ret = None
    /\ collector_invoked = FALSE
    /\ run_ret = None
    /\ exit_status = None

\* main() has constructed the agent and enters run()
Init == rpc = "resolve" /\ Constructed

\* client code has constructed an agent
InitAPI == rpc = "client" /\ Constructed

\* a method may be entered: by run() at its place, by client code any time
CanCall(place) == mpc = "idle" /\ rpc \in {place, "client"}

(***************************************************************************)
(* get_current_branch                                                      *)
(***************************************************************************)
GetCurrentBranch ==
    /\ CanCall("resolve")
    /\ method' = "get_current_branch"
    /\ \/ \E out \in BranchOutputs :
            /\ branch_outcome' = "ok"
            /\ branch_name' = Some(Strip(out))
            /\ ret_branch' = Some(Strip(out))
            /\ mpc' = "returned"
       \/ \* subprocess.CalledProcessError: git exited non-zero
          /\ branch_outcome' = "error"
          /\ ret_branch' = None
          /\ mpc' = "returned"
          /\ UNCHANGED branch_name
       \/ \* FileNotFoundError: no git binary; not caught
          /\ branch_outcome' = "no_git"
          /\ mpc' = "raised"
          /\ UNCHANGED <<branch_name, ret_branch>>
    /\ UNCHANGED <<rpc, changed_files, stdout, lines, idx, current_commit_info,
                   log_outcome, ret_files, html, msg, smtp_session, smtp_error,
                   diag, delivered, send_ret, collector_invoked, run_ret,
                   exit_status>>

(***************************************************************************)
(* get_files_changed_today                                                 *)
(***************************************************************************)
\* the git log query, up to the start of the loop; n bounds the output
GitLog(n) ==
    /\ CanCall("collect")
    /\ method' = "get_files_changed_today"
    /\ collector_invoked' = TRUE
    /\ \/ \* subprocess.CalledProcessError
          /\ log_outcome' = "error"
          /\ ret_files' = Some(<<>>)
          /\ mpc' = "returned"
          /\ UNCHANGED <<changed_files, stdout, lines, idx, current_commit_info>>
       \/ \E ls \in LineSeqs(n) :
            LET out == Join(ls, "\n")
                stripped == Strip(out)
            IN
            /\ stdout' = out
            /\ IF ~Truthy(stripped)
               THEN /\ log_outcome' = "empty"
                    /\ ret_files' = Some(<<>>)
                    /\ mpc' = "returned"
                    /\ UNCHANGED <<changed_files, lines, idx, current_commit_info>>
               ELSE /\ log_outcome' = "output"
                    /\ lines' = Split(stripped, "\n")
                    /\ changed_files' = <<>>
                    /\ current_commit_info' = None
                    /\ idx' = 1
                    /\ mpc' = "parse"
                    /\ UNCHANGED ret_files
    /\ UNCHANGED <<rpc, branch_name, branch_outcome, ret_branch, html, msg, smtp_session,
                   smtp_error, diag, delivered, send_ret, run_ret, exit_status>>

\* one iteration of: for line in lines
ParseLine ==
    /\ mpc = "parse"
    /\ idx <= Len(lines)
    /\ LET line == lines[idx] IN
       IF IsCommitLine(line)
       THEN IF RaisesIndexError(line)
            THEN /\ mpc' = "raised"
                 /\ UNCHANGED <<current_commit_info, changed_files, idx>>
            ELSE /\ current_commit_info' = Some(CommitInfo(line))
                 /\ idx' = idx + 1
                 /\ UNCHANGED <<mpc, changed_files>>
       ELSE IF IsFileLine(line, current_commit_info)
            THEN /\ changed_files' =
                      AppendEntry(changed_files,
                                  FileEntry(line, Val(current_commit_info), branch_name))
                 /\ idx' = idx + 1
                 /\ UNCHANGED <<mpc, current_commit_info>>
            ELSE /\ idx' = idx + 1
                 /\ UNCHANGED <<mpc, current_commit_info, changed_files>>
    /\ UNCHANGED <<rpc, method, branch_name, stdout, lines, log_outcome,
                   branch_outcome, ret_branch, ret_files, html, msg, smtp_session, smtp_error,
                   diag, delivered, send_ret, collector_invoked, run_ret,
                   exit_status>>

\* return self.changed_files
ParseReturn ==
    /\ mpc = "parse"
    /\ idx > Len(lines)
    /\ ret_files' = Some(changed_files)
    /\ mpc' = "returned"
    /\ UNCHANGED <<rpc, method, branch_name, changed_files, stdout, lines, idx,
                   current_commit_info, log_outcome, branch_outcome, ret_branch, html, msg,
                   smtp_session, smtp_error, diag, delivered, send_ret,
                   collector_invoked, run_ret, exit_status>>

(***************************************************************************)
(* create_html_table, called by client code                                *)
(***************************************************************************)
CallCreateHtmlTable ==
    /\ CanCall("client")
    /\ method' = "create_html_table"
    /\ html' = Some(CreateHtmlTable(changed_files, Now))
    /\ mpc' = "returned"
    /\ UNCHANGED <<rpc, branch_name, changed_files, stdout, lines, idx,
                   current_commit_info, log_outcome, branch_outcome, ret_branch, ret_files, msg,
                   smtp_session, smtp_error, diag, delivered, send_ret,
                   collector_invoked, run_ret, exit_status>>

(***************************************************************************)
(* send_email                                                              *)
(***************************************************************************)
\* an exception raised at an SMTP step is caught; send_email returns False
Caught(step, exc) ==
    /\ smtp_error' = [step |-> step, exc |-> exc]
    /\ diag' = HandlerDiag(exc)
    /\ send_ret' = Some(FALSE)
    /\ mpc' = "returned"

\* the guard, then the message is built
SendEmailBegin ==
    /\ CanCall("send")
    /\ method' = "send_email"
    /\ IF SendSkipped(changed_files)
       THEN /\ diag' = "no_files"
            /\ send_ret' = Some(FALSE)
            /\ mpc' = "returned"
            /\ UNCHANGED <<html, msg>>
       ELSE /\ html' = Some(CreateHtmlTable(changed_files, Now))
            /\ msg' = Some(BuildMessage(branch_name, CreateHtmlTable(changed_files, Now)))
            /\ mpc' = "smtp_connect"
            /\ UNCHANGED <<diag, send_ret>>
    /\ UNCHANGED <<rpc, branch_name, changed_files, stdout, lines, idx,
                   current_commit_info, log_outcome, branch_outcome, ret_branch, ret_files,
                   smtp_session, smtp_error, delivered, collector_invoked,
                   run_ret, exit_status>>

\* server = smtplib.SMTP_SSL('smtp.gmail.com', 465)
SmtpConnect ==
    /\ mpc = "smtp_connect"
    /\ \/ /\ smtp_session' = "open"
          /\ mpc' = "smtp_login"
          /\ UNCHANGED <<smtp_error, diag, send_ret>>
       \/ /\ Caught("connect", "Exception")
          /\ UNCHANGED smtp_session
    /\ UNCHANGED <<rpc, method, branch_name, changed_files, stdout, lines, idx,
                   current_commit_info, log_outcome, branch_outcome, ret_branch, ret_files, html,
                   msg, delivered, collector_invoked, run_ret, exit_status>>

\* server.login(...)
SmtpLogin ==
    /\ mpc = "smtp_login"
    /\ \/ /\ mpc' = "smtp_sendmail"
          /\ UNCHANGED <<smtp_session, smtp_error, diag, send_ret>>
       \/ \* the server rejects the credentials; the connection stays up
          /\ Caught("login", "SMTPAuthenticationError")
          /\ UNCHANGED smtp_session
       \/ \* any other error; a dropped connection is closed by smtplib
          /\ Caught("login", "Exception")
          /\ \E s \in {"open", "closed"} : smtp_session' = s
    /\ UNCHANGED <<rpc, method, branch_name, changed_files, stdout, lines, idx,
                   current_commit_info, log_outcome, branch_outcome, ret_branch, ret_files, html,
                   msg, delivered, collector_invoked, run_ret, exit_status>>

\* server.sendmail(...)
SmtpSendmail ==
    /\ mpc = "smtp_sendmail"
    /\ \/ /\ delivered' = TRUE
          /\ mpc' = "smtp_quit"
          /\ UNCHANGED <<smtp_session, smtp_error, diag, send_ret>>
       \/ /\ Caught("sendmail", "Exception")
          /\ \E s \in {"open", "closed"} : smtp_session' = s
          /\ UNCHANGED delivered
    /\ UNCHANGED <<rpc, method, branch_name, changed_files, stdout, lines, idx,
                   current_commit_info, log_outcome, branch_outcome, ret_branch, ret_files, html,
                   msg, collector_invoked, run_ret, exit_status>>

\* server.quit(); return True
SmtpQuit ==
    /\ mpc = "smtp_quit"
    /\ \/ /\ smtp_session' = "closed"
          /\ diag' = "sent"
          /\ send_ret' = Some(TRUE)
          /\ mpc' = "returned"
          /\ UNCHANGED smtp_error
       \/ \* quit raises only after smtplib has closed the socket
          /\ Caught("quit", "Exception")
          /\ smtp_session' = "closed"
    /\ UNCHANGED <<rpc, method, branch_name, changed_files, stdout, lines, idx,
                   current_commit_info, log_outcome, branch_outcome, ret_branch, ret_files, html,
                   msg, delivered, collector_invoked, run_ret, exit_status>>

(***************************************************************************)
(* run() and main()                                                        *)
(***************************************************************************)
run_unchanged ==
    UNCHANGED <<method, branch_name, changed_files, stdout, lines, idx,
                current_commit_info, log_outcome, branch_outcome, ret_branch, ret_files, html,
                msg, smtp_session, smtp_error, diag, delivered, send_ret,
                collector_invoked>>

\* step 1 of run(): the branch check
RunAfterBranch ==
    /\ rpc = "resolve"
    /\ mpc = "returned"
    /\ mpc' = "idle"
    /\ IF BranchFailed(ret_branch)
       THEN rpc' = "return" /\ run_ret' = Some(FALSE)
       ELSE rpc' = "collect" /\ UNCHANGED run_ret
    /\ UNCHANGED exit_status
    /\ run_unchanged

\* steps 2 and 3 of run(): the collector's result is only printed
RunAfterCollect ==
    /\ rpc = "collect"
    /\ mpc = "returned"
    /\ mpc' = "idle"
    /\ rpc' = "send"
    /\ UNCHANGED <<run_ret, exit_status>>
    /\ run_unchanged

\* step 4 of run(): success = self.send_email(); return success
RunAfterSend ==
    /\ rpc = "send"
    /\ mpc = "returned"
    /\ mpc' = "idle"
    /\ rpc' = "return"
    /\ run_ret' = send_ret
    /\ UNCHANGED exit_status
    /\ run_unchanged

\* an exception no handler catches leaves run()
RunRaised ==
    /\ rpc \in {"resolve", "collect", "send"}
    /\ mpc = "raised"
    /\ mpc' = "idle"
    /\ rpc' = "crashed"
    /\ UNCHANGED <<run_ret, exit_status>>
    /\ run_unchanged

\* sys.exit(0 if success else 1)
MainExit ==
    /\ rpc = "return"
    /\ rpc' = "done"
    /\ exit_status' = Some(ExitStatus(Val(run_ret)))
    /\ UNCHANGED <<mpc, run_ret>>
    /\ run_unchanged

\* the interpreter prints the traceback and exits
MainCrash ==
    /\ rpc = "crashed"
    /\ rpc' = "done"
    /\ exit_status' = Some(TracebackExitStatus)
    /\ UNCHANGED <<mpc, run_ret>>
    /\ run_unchanged

\* control is back in client code: the call's locals and results are dropped
ClientResume ==
    /\ rpc = "client"
    /\ mpc \in {"returned", "raised"}
    /\ mpc' = "idle"
    /\ method' = "none"
    /\ stdout' = <<>>
    /\ lines' = <<>>
    /\ idx' = 0
    /\ current_commit_info' = None
    /\ log_outcome' = "none"
    /\ branch_outcome' = "none"
    /\ ret_branch' = None
    /\ ret_files' = None
    /\ html' = None
    /\ msg' = None
    /\ smtp_session' = "none"
    /\ smtp_error' = NoError
    /\ diag' = "none"
    /\ delivered' = FALSE
    /\ send_ret' = None
    /\ UNCHANGED <<rpc, branch_name, changed_files, collector_invoked, run_ret,
                   exit_status>>

(***************************************************************************)
(* Specifications.                                                         *)
(***************************************************************************)
SendEmail == SendEmailBegin \/ SmtpConnect \/ SmtpLogin \/ SmtpSendmail \/ SmtpQuit

Next ==
    \/ GetCurrentBranch
    \/ GitLog(MaxLines)
    \/ ParseLine
    \/ ParseReturn
    \/ SendEmail
    \/ RunAfterBranch
    \/ RunAfterCollect
    \/ RunAfterSend
    \/ RunRaised
    \/ MainExit
    \/ MainCrash

Spec == Init /\ [][Next]_vars

NextAPI ==
    \/ GetCurrentBranch
    \/ GitLog(MaxClientLines)
    \/ ParseLine
    \/ ParseReturn
    \/ CallCreateHtmlTable
    \/ SendEmail
    \/ ClientResume

SpecAPI == InitAPI /\ [][NextAPI]_vars

(***************************************************************************)
(* Vocabulary of the properties.                                           *)
(***************************************************************************)
Collector == "get_files_changed_today"
Sender == "send_email"

\* the least, the greatest and the k-th smallest element of a set of numbers
SetMin(S) == CHOOSE x \in S : \A y \in S : x <= y
SetMax(S) == CHOOSE x \in S : \A y \in S : x >= y
Kth(S, k) == CHOOSE p \in S : Cardinality({q \in S : q < p}) = k - 1

\* the commit header lines among the first n lines of ls
HeaderIdx(ls, n) == {j \in 1..n : Contains(ls[j], "|")}

\* the non-blank, non-header lines among the first n that follow a header
PathIdx(ls, n) ==
    {j \in 1..n : /\ ~Contains(ls[j], "|")
                  /\ \E c \in 1..Len(ls[j]) : ls[j][c] \notin Whitespace
                  /\ \E h \in HeaderIdx(ls, n) : h < j}

\* the header line that most recently precedes line j
LastHeader(ls, j) == SetMax({h \in HeaderIdx(ls, j) : h < j})

\* the lines of the loop that have been processed
Processed == idx - 1

\* the lines of the log output as git printed it
RawLines == Split(stdout, "\n")

\* the git log query of the collector's latest call printed something
HasLogOutput == log_outcome \in {"output", "empty"}

\* the branch was resolved, entries were collected, the message was handed
\* over and no step of the SMTP exchange (connect, login, sendmail, quit) raised
RunSucceeded ==
    /\ branch_outcome = "ok"
    /\ ~IsNone(ret_files) /\ Truthy(Val(ret_files))
    /\ delivered
    /\ smtp_error = NoError

\* the log output has no commit header line
NoHeaderInLog == HasLogOutput /\ HeaderIdx(RawLines, Len(RawLines)) = {}

\* an authentication failure, or another failure while connecting, logging
\* in or sending
TransmissionFailed ==
    \/ smtp_error.exc = "SMTPAuthenticationError"
    \/ smtp_error.exc = "Exception" /\ smtp_error.step \in {"connect", "login", "sendmail"}

\* the table rows of a rendered document: the places of its <tr> chunks,
\* and the texts of the cells of the row that starts at place t
RowStarts(doc) == {i \in 1..Len(doc) : doc[i] = "<tr>"}
RowEnd(doc, t) == SetMin({i \in t..Len(doc) : doc[i] = "</tr>"})
CellStarts(doc, t, open) == {i \in t..RowEnd(doc, t) : doc[i] = open}
CellText(doc, c, close) ==
    SubSeq(doc, c + 1, SetMin({i \in c..Len(doc) : doc[i] = close}) - 1)
RowCells(doc, t, open, close) ==
    [k \in 1..Cardinality(CellStarts(doc, t, open)) |->
        CellText(doc, Kth(CellStarts(doc, t, open), k), close)]

(***************************************************************************)
(* C1: when main() has exited, the exit status is 0 and run() returned     *)
(* True exactly if the branch was resolved, the collector returned a       *)
(* non-empty sequence, the message was handed over and no step of the SMTP *)
(* exchange raised; in every other outcome the exit status is 1.           *)
(***************************************************************************)
C1_ExitStatusIffSent ==
    rpc = "done" =>
        /\ exit_status \in {Some(0), Some(1)}
        /\ exit_status = Some(0) <=> RunSucceeded
        /\ exit_status = Some(0) <=> run_ret = Some(TRUE)

C1_Witness == rpc = "done" /\ exit_status = Some(0) /\ RunSucceeded

(***************************************************************************)
(* C2: once get_current_branch has returned None because git exited        *)
(* non-zero, the collector is never invoked, no SMTP session is opened, no *)
(* other method is entered, and run() returns False with exit status 1.    *)
(***************************************************************************)
C2_BranchFailureStopsRun ==
    branch_outcome = "error" =>
        /\ ~collector_invoked
        /\ smtp_session = "none" /\ ~delivered
        /\ method = "get_current_branch"
        /\ rpc \in {"resolve", "return", "done"}
        /\ rpc \in {"return", "done"} => run_ret = Some(FALSE)
        /\ rpc = "done" => exit_status = Some(1)

C2_Witness == branch_outcome = "error" /\ rpc = "done" /\ exit_status = Some(1)

(***************************************************************************)
(* C3: in a run of main(), a log output without any commit header line     *)
(* makes the collector return an empty sequence, and send_email then       *)
(* returns False without opening an SMTP session or handing over a message.*)
(***************************************************************************)
C3_NoHeaderNoTransmission ==
    NoHeaderInLog =>
        /\ changed_files = <<>>
        /\ ~IsNone(ret_files) => Val(ret_files) = <<>>
        /\ ~IsNone(send_ret) => Val(send_ret) = FALSE
        /\ smtp_session = "none" /\ ~delivered /\ IsNone(msg)

C3_Witness ==
    /\ NoHeaderInLog
    /\ \E j \in 1..Len(RawLines) : RawLines[j] = PathPlain
    /\ method = Sender /\ mpc = "returned" /\ send_ret = Some(FALSE)

(***************************************************************************)
(* C4: at every point of the parsing loop and after it, each collected     *)
(* entry comes from a filename line that a header line precedes, and its   *)
(* date is the first 10 characters of the third field of the header line   *)
(* that most recently precedes that filename line; while no header line    *)
(* has been seen there is no entry.                                        *)
(***************************************************************************)
C4_EntryDateOfLastHeader ==
    log_outcome = "output" =>
        LET paths == PathIdx(lines, Processed) IN
        /\ HeaderIdx(lines, Processed) = {} => changed_files = <<>>
        /\ Len(changed_files) <= Cardinality(paths)
        /\ \A k \in 1..Len(changed_files) :
              LET h == LastHeader(lines, Kth(paths, k))
              IN  changed_files[k].date = Take(Split(lines[h], "|")[3], 10)

C4_Witness ==
    /\ method = Collector /\ mpc = "returned"
    /\ Len(lines) = 4
    /\ lines[1] = PathPlain
    /\ lines[2] = HeaderFull
    /\ lines[3] = HeaderShort
    /\ Len(changed_files) = 1
    /\ changed_files[1].date = <<"0","1","-","0","2">>

(***************************************************************************)
(* C5: the sequence the collector returns for a log output has exactly one *)
(* entry per non-blank, non-header line that follows the first header      *)
(* line, in the order of the log, with the trimmed line as filename and    *)
(* the resolved branch name as branch; a repeated filename is repeated.    *)
(***************************************************************************)
C5_OneEntryPerPathLine ==
    (method = Collector /\ mpc = "returned" /\ HasLogOutput) =>
        LET paths == PathIdx(RawLines, Len(RawLines))
            got == Val(ret_files)
        IN  /\ ~IsNone(ret_files)
            /\ Len(got) = Cardinality(paths)
            /\ \A k \in 1..Len(got) :
                  /\ got[k].filename = Strip(RawLines[Kth(paths, k)])
                  /\ got[k].branch = Val(branch_name)

C5_Witness ==
    /\ method = Collector /\ mpc = "returned"
    /\ stdout = Join(<<HeaderFull, PathPlain, HeaderShort, PathPlain>>, "\n")
    /\ Len(Val(ret_files)) = 2
    /\ Val(ret_files)[1].filename = Val(ret_files)[2].filename
    /\ Val(ret_files)[1].date = <<"2","0","2","4","-","0","1","-","0","1">>
    /\ Val(ret_files)[2].date # Val(ret_files)[1].date

(***************************************************************************)
(* C6: the document create_html_table returns for an empty sequence is the *)
(* "no files changed" notice, without any table row; for a non-empty       *)
(* sequence it has one header row and then one row per entry, in the order *)
(* of the sequence, with the entry's date, filename and branch.            *)
(***************************************************************************)
C6_TableRowsMatchEntries ==
    ~IsNone(html) =>
        LET doc == Val(html)
            starts == RowStarts(doc)
        IN  IF changed_files = <<>>
            THEN doc = <<"<p>No files changed today.</p>">> /\ starts = {}
            ELSE /\ Cardinality(starts) = 1 + Len(changed_files)
                 /\ RowCells(doc, Kth(starts, 1), "<th>", "</th>")
                        = << <<"Date">>, <<"Filename">>, <<"Branch">> >>
                 /\ \A k \in 1..Len(changed_files) :
                        RowCells(doc, Kth(starts, k + 1), "<td>", "</td>")
                            = <<changed_files[k].date, changed_files[k].filename,
                                changed_files[k].branch>>

C6_Witness ==
    /\ method = "create_html_table" /\ mpc = "returned"
    /\ Len(changed_files) = 2
    /\ changed_files[1].filename = changed_files[2].filename
    /\ Cardinality(RowStarts(Val(html))) = 3

(***************************************************************************)
(* C7: when send_email has returned, the SMTP session it opened is closed. *)
(***************************************************************************)
C7_SessionClosedOnReturn ==
    (method = Sender /\ mpc \in {"returned", "idle"}) => smtp_session # "open"

(***************************************************************************)
(* C8: an authentication failure at login gets the authentication          *)
(* diagnostic and any other failure while connecting, logging in or        *)
(* sending gets the generic one; in both cases send_email returns False,   *)
(* raises nothing, no message is handed over and the exit status is 1.     *)
(***************************************************************************)
C8_AuthFailureDistinct ==
    TransmissionFailed =>
        /\ diag = "auth" <=> smtp_error.exc = "SMTPAuthenticationError"
        /\ diag \in {"auth", "generic"}
        /\ send_ret = Some(FALSE)
        /\ ~delivered
        /\ mpc # "raised" /\ rpc # "crashed"
        /\ rpc \in {"return", "done"} => run_ret = Some(FALSE)
        /\ rpc = "done" => exit_status = Some(1)

C8_Witness ==
    /\ rpc = "done"
    /\ smtp_error = [step |-> "login", exc |-> "SMTPAuthenticationError"]
    /\ diag = "auth"

(***************************************************************************)
(* C9: a collector call whose query errors or prints nothing returns an    *)
(* empty sequence and leaves changed_files empty, so that the rendering is *)
(* the notice and send_email would skip.                                   *)
(***************************************************************************)
C9_EmptyQueryLeavesNoEntries ==
    (method = Collector /\ mpc = "returned" /\ log_outcome \in {"error", "empty"}) =>
        /\ ret_files = Some(<<>>)
        /\ changed_files = <<>>
        /\ CreateHtmlTable(changed_files, Now) = NoFilesNotice
        /\ SendSkipped(changed_files)

(***************************************************************************)
(* C10: whatever the log output, the parsing loop raises nothing: the      *)
(* collector never ends in an exception and run() never crashes in it.     *)
(***************************************************************************)
C10_ParsingNeverRaises ==
    method = Collector => (mpc # "raised" /\ rpc # "crashed")

====
